---------------------------- MODULE Spec2Model ----------------------------
(***************************************************************************)
(* Model of scripts/flight_data_processor.py (AviationStack -> PostgreSQL   *)
(* ETL), read from its compiled form                                        *)
(* scripts/__pycache__/flight_data_processor.cpython-310.pyc.               *)
(*                                                                          *)
(* Dates ('%Y-%m-%d' strings) are day numbers; a datetime is a number of    *)
(* clock ticks, TicksPerDay ticks to the day, so that a datetime carries a  *)
(* time of day and a parsed date string is the midnight of its day.         *)
(***************************************************************************)
EXTENDS Integers, Sequences, FiniteSets, TLC

\* ---- module-level configuration of the script
MAX_RETRIES == 3
RETRY_DELAY == 2
HISTORICAL_DATA_WINDOW_DAYS == 90

\* ---- bounds of the model
TicksPerDay == 2
MaxPages == 2
MaxBatch == 2
MaxRows == 2
MaxClock == 2
MaxFailures == 1
MaxInterrupt == 2

VARIABLES
    now,            \* wall clock (datetime.now()), in ticks
    apiTotal,       \* number of records the API holds for the query (pagination.total)
    pc,             \* position of the client: idle / call / request / call_returned / fetch_returned
    endpoint,       \* fetch_paginated_data argument
    date,           \* fetch_paginated_data argument: <<>> is None, <<d>> a date string
    all_results,    \* fetch_paginated_data local: records accumulated so far
    offset,         \* fetch_paginated_data local
    attempt,        \* call_aviationstack loop variable
    response,       \* value returned by call_aviationstack
    outcomes,       \* history: class of each response of the current wrapper call
    sleeps,         \* history: argument of each time.sleep of the current wrapper call
    pageCalls,      \* history: wrapper calls made by the current fetch
    failedCalls,    \* history: wrapper calls of the current fetch that returned an error
    store,          \* committed rows of the tables flights, airlines, airports, routes
    wpc,            \* position of the writer: off / ready / written / rewritten
    w_kind,         \* entity kind of the last process_*_data call
    w_batch,        \* its argument: the list of raw records
    w_fail,         \* history: which session.execute / commit of that call raised
    before,         \* history: the store before that call
    once,           \* history: the store after the first write of the batch
    report,         \* what that call returned and logged
    rpc,            \* position of the run: off / idle / resume / date_range / refs / dates / done
    mode,           \* command-line mode of the run
    start_date,     \* process_date_range argument / local (datetime)
    end_date,       \* process_date_range / resume_processing argument (datetime)
    fetch_supporting_data, \* flag of the run
    date_list,      \* dates still to visit, in iteration order
    checkpoint,     \* content of checkpoint.txt: <<>> no file, <<d>> a date
    last_date_str,  \* resume_processing local: the checkpoint it has read, <<>> before
    earlier,        \* history: dates visited by an earlier run that a checkpoint failure ended
    refs,           \* history: reference endpoints processed by the run
    visited,        \* history: dates the loop of the run has visited
    requested,      \* history: dates for which the run sent a flights request
    cycle,          \* history: the last date cycle
    failures        \* history: fetch and write failures injected so far

clientVars == <<now, apiTotal, pc, endpoint, date, all_results, offset, attempt,
                response, outcomes, sleeps, pageCalls, failedCalls>>

writerVars == <<store, wpc, w_kind, w_batch, w_fail, before, once, report>>

runVars == <<rpc, mode, start_date, end_date, fetch_supporting_data, date_list, checkpoint,
             last_date_str, earlier, refs, visited, requested, cycle, failures>>

vars == <<clientVars, writerVars, runVars>>

\* ---- datetime arithmetic
timedelta(days) == days * TicksPerDay
strptime(date_str) == date_str * TicksPerDay
strftime(t) == t \div TicksPerDay


\* ---- get_valid_date_range(): (start_date, end_date) read from the clock t
\* a window one day longer
get_valid_date_rangeMutant(t) ==
    [start_date |-> t - timedelta(HISTORICAL_DATA_WINDOW_DAYS + 1), end_date |-> t]

get_valid_date_range(t) ==
    [start_date |-> t - timedelta(HISTORICAL_DATA_WINDOW_DAYS), end_date |-> t]

\* ---- is_date_in_valid_range(date_str) evaluated when the clock reads t
\* the date check without its upper bound
is_date_in_valid_rangeMutant(date_str, t) ==
    get_valid_date_range(t).start_date <= strptime(date_str)

is_date_in_valid_range(date_str, t) ==
    LET r == get_valid_date_range(t)
    IN  r.start_date <= strptime(date_str) /\ strptime(date_str) <= r.end_date

(***************************************************************************)
(* Upsert writers (process_flights_data, process_airlines_data,             *)
(* process_airports_data, process_routes_data) over a PostgreSQL session.   *)
(* A raw record is the API's nested JSON object, flattened to the fields    *)
(* the writers read; None is NULL.                                          *)
(***************************************************************************)

NULL == "<None>"

\* Python truth value of a field: None and '' are false
Truthy(v) == v # NULL /\ v # ""

Kinds == {"Flight", "Airline", "Airport", "Route"}

FlightRecord ==
    [flight_date |-> "2025-05-06", flight_status |-> "landed", flight_iata |-> "SQ12",
     departure_iata |-> "SIN", arrival_iata |-> "KUL",
     departure_scheduled |-> "08:00", departure_delay |-> "0"]
AirlineRecord == [id |-> "1", iata_code |-> "SQ", airline_name |-> "Singapore Airlines"]
AirportRecord == [iata_code |-> "SIN", airport_name |-> "Changi"]
RouteRecord ==
    [airline_iata |-> "SQ", flight_number |-> "12", departure_iata |-> "SIN",
     arrival_iata |-> "KUL", departure_time |-> "08:00"]

\* raw records the API may return, per endpoint
Records(kind) ==
    CASE kind = "Flight" ->
           {FlightRecord,
            [FlightRecord EXCEPT !.departure_delay = "5"],
            [FlightRecord EXCEPT !.flight_iata = NULL],
            [FlightRecord EXCEPT !.flight_date = NULL],
            [FlightRecord EXCEPT !.flight_status = ""],
            [FlightRecord EXCEPT !.departure_iata = NULL],
            [FlightRecord EXCEPT !.arrival_iata = NULL]}
      [] kind = "Airline" ->
           {AirlineRecord,
            [AirlineRecord EXCEPT !.airline_name = "SIA"],
            [AirlineRecord EXCEPT !.id = "2"],
            [AirlineRecord EXCEPT !.id = NULL]}
      [] kind = "Airport" ->
           {AirportRecord,
            [AirportRecord EXCEPT !.airport_name = "Singapore Changi"],
            [AirportRecord EXCEPT !.iata_code = NULL]}
      [] kind = "Route" ->
           {RouteRecord,
            [RouteRecord EXCEPT !.departure_time = "09:00"],
            [RouteRecord EXCEPT !.airline_iata = NULL],
            [RouteRecord EXCEPT !.flight_number = NULL],
            [RouteRecord EXCEPT !.arrival_iata = ""]}

Batches(kind, n) == UNION {[1..k -> Records(kind)] : k \in 0..n}

\* the fields each writer tests with `if not all([...])` / `if not api_id`
RequiredFields(kind) ==
    CASE kind = "Flight" -> {"flight_date", "flight_status", "departure_iata", "arrival_iata"}
      [] kind = "Airline" -> {"id"}
      [] kind = "Airport" -> {"iata_code"}
      [] kind = "Route" -> {"airline_iata", "flight_number", "departure_iata", "arrival_iata"}

HasRequiredFields(kind, r) == \A f \in RequiredFields(kind) : Truthy(r[f])

\* index_elements of on_conflict_do_update
index_elements(kind) ==
    CASE kind = "Flight" -> {"flight_date", "flight_iata", "departure_iata", "arrival_iata",
                             "departure_scheduled"}
      [] kind = "Airline" -> {"id"}
      [] kind = "Airport" -> {"iata_code"}
      [] kind = "Route" -> {"airline_iata", "flight_number", "departure_iata", "arrival_iata"}

\* the dict passed to insert(...).values(**row): the flat fields and the raw payload
Row(kind, r) ==
    CASE kind = "Flight" ->
           [flight_date |-> r.flight_date, flight_status |-> r.flight_status,
            flight_iata |-> r.flight_iata, departure_iata |-> r.departure_iata,
            arrival_iata |-> r.arrival_iata, departure_scheduled |-> r.departure_scheduled,
            departure_delay |-> r.departure_delay, raw_payload |-> r]
      [] kind = "Airline" ->
           [id |-> r.id, iata_code |-> r.iata_code, airline_name |-> r.airline_name,
            raw_payload |-> r]
      [] kind = "Airport" ->
           [iata_code |-> r.iata_code, airport_name |-> r.airport_name, raw_payload |-> r]
      [] kind = "Route" ->
           [airline_iata |-> r.airline_iata, flight_number |-> r.flight_number,
            departure_iata |-> r.departure_iata, arrival_iata |-> r.arrival_iata,
            departure_time |-> r.departure_time, raw_payload |-> r]

\* the columns of the unique index are nullable and the index holds a NULL
\* equal to nothing (the table declarations: "null values are not treated as
\* duplicates for conflict purposes")
NullsDistinct == TRUE

\* ON CONFLICT (index_elements): the unique index matches when every key column
\* is equal
Conflicts(kind, old, new) ==
    \A f \in index_elements(kind) :
        /\ old[f] = new[f]
        /\ NullsDistinct => old[f] # NULL

\* INSERT ... ON CONFLICT (index_elements) DO NOTHING
UpsertMutant(kind, table, row) ==
    IF \E i \in 1..Len(table) : Conflicts(kind, table[i], row)
    THEN table
    ELSE Append(table, row)

\* INSERT ... ON CONFLICT (index_elements) DO UPDATE SET <every field of the row>
Upsert(kind, table, row) ==
    IF \E i \in 1..Len(table) : Conflicts(kind, table[i], row)
    THEN [i \in 1..Len(table) |-> IF Conflicts(kind, table[i], row) THEN row ELSE table[i]]
    ELSE Append(table, row)

\* which statement of a call raises: the execute of record `at` (0: none), in
\* the database (the transaction is then aborted) or before the statement
\* reaches it, and whether commit raises
NoFailure == [at |-> 0, how |-> "none", commit |-> FALSE]
Failures(batch) ==
    {NoFailure, [NoFailure EXCEPT !.commit = TRUE]}
        \cup {[at |-> i, how |-> h, commit |-> FALSE] :
                 i \in 1..Len(batch), h \in {"database", "client"}}

\* a record without its required fields raises in the loop as a failed
\* statement does
ProcessRecordMutant(kind, s, r, raises) ==
    IF ~HasRequiredFields(kind, r)
    THEN [s EXCEPT !.aborted = TRUE, !.skipped_count = @ + 1]
    ELSE IF s.aborted \/ raises # "none"
    THEN [s EXCEPT !.aborted = @ \/ raises = "database", !.errors = @ + 1]
    ELSE [s EXCEPT !.table = Upsert(kind, @, Row(kind, r)),
                   !.processed_count = @ + 1]

\* one iteration of the writer's for loop over session state s
ProcessRecord(kind, s, r, raises) ==
    IF ~HasRequiredFields(kind, r)
    THEN [s EXCEPT !.skipped_count = @ + 1]
    ELSE IF s.aborted \/ raises # "none"
    THEN [s EXCEPT !.aborted = @ \/ raises = "database", !.errors = @ + 1]
    ELSE [s EXCEPT !.table = Upsert(kind, @, Row(kind, r)),
                   !.processed_count = @ + 1]

RECURSIVE ProcessRecords(_, _, _, _, _)
ProcessRecords(kind, batch, i, fail, s) ==
    IF i > Len(batch) THEN s
    ELSE ProcessRecords(kind, batch, i + 1, fail,
             ProcessRecord(kind, s, batch[i], IF fail.at = i THEN fail.how ELSE "none"))

\* the session after the loop of process_*_data over table
Session(kind, table, batch, fail) ==
    ProcessRecords(kind, batch, 1, fail,
        [table |-> table, aborted |-> FALSE, processed_count |-> 0,
         skipped_count |-> 0, errors |-> 0])

\* a failed commit leaves the table empty
CommitMutant(kind, table, batch, fail) ==
    LET s == Session(kind, table, batch, fail)
    IN  IF fail.commit \/ s.aborted THEN <<>> ELSE s.table

\* session.commit(): COMMIT of an aborted transaction rolls back and raises nothing
Commit(kind, table, batch, fail) ==
    LET s == Session(kind, table, batch, fail)
    IN  IF fail.commit \/ s.aborted THEN table ELSE s.table

\* what process_*_data returns and logs; <<>> stands for nothing reported
\* every writer commits outside a try block, as the airports writer does
ReportMutant(kind, table, batch, fail) ==
    [returned |-> <<>>, processed |-> IF fail.commit THEN <<>> ELSE <<Len(batch)>>,
     skipped |-> <<>>, commit_error |-> FALSE, raised |-> fail.commit]

Report(kind, table, batch, fail) ==
    LET s == Session(kind, table, batch, fail)
    IN  CASE kind = "Flight" ->
               [returned |-> <<IF fail.commit THEN 0 ELSE s.processed_count>>,
                processed |-> IF fail.commit THEN <<>> ELSE <<s.processed_count>>,
                skipped |-> <<>>, commit_error |-> fail.commit, raised |-> FALSE]
          [] kind = "Airline" ->
               [returned |-> <<>>,
                processed |-> IF fail.commit THEN <<>> ELSE <<s.processed_count>>,
                skipped |-> IF fail.commit THEN <<>> ELSE <<s.skipped_count>>,
                commit_error |-> fail.commit, raised |-> FALSE]
          [] kind = "Airport" ->
               [returned |-> <<>>,
                processed |-> IF fail.commit THEN <<>> ELSE <<Len(batch)>>,
                skipped |-> <<>>, commit_error |-> FALSE, raised |-> fail.commit]
          [] kind = "Route" ->
               [returned |-> <<>>,
                processed |-> IF fail.commit THEN <<>> ELSE <<s.processed_count>>,
                skipped |-> <<>>, commit_error |-> FALSE, raised |-> fail.commit]

EmptyStore == [k \in Kinds |-> <<>>]
NoReport ==
    [returned |-> <<>>, processed |-> <<>>, skipped |-> <<>>, commit_error |-> FALSE,
     raised |-> FALSE]

\* tables a run can find: what earlier failure-free writes have left
Tables(kind) == {Commit(kind, <<>>, b, NoFailure) : b \in Batches(kind, MaxRows)}

WriterOff ==
    /\ store = EmptyStore
    /\ wpc = "off"
    /\ w_kind = "Flight"
    /\ w_batch = <<>>
    /\ w_fail = NoFailure
    /\ before = EmptyStore
    /\ once = EmptyStore
    /\ report = NoReport

NoCycle ==
    [date |-> 0, skipped |-> FALSE, fetched |-> <<>>, fetch_failed |-> FALSE,
     fail |-> NoFailure, report |-> NoReport, checkpoint_failed |-> FALSE,
     flights_before |-> <<>>, checkpoint_before |-> <<>>]

RunOff ==
    /\ rpc = "off"
    /\ mode = "none"
    /\ start_date = 0
    /\ end_date = 0
    /\ fetch_supporting_data = FALSE
    /\ date_list = <<>>
    /\ checkpoint = <<>>
    /\ last_date_str = <<>>
    /\ earlier = {}
    /\ refs = <<>>
    /\ visited = <<>>
    /\ requested = {}
    /\ cycle = NoCycle
    /\ failures = 0

(***************************************************************************)
(* HTTP client wrapper (call_aviationstack) and paginated fetcher           *)
(* (fetch_paginated_data).                                                  *)
(***************************************************************************)

\* page size requested by fetch_paginated_data
limit == 1000

Endpoints == {"flights", "airlines", "airports", "routes"}

\* the day of the clock at the start, and the dates a caller may ask for
Today == HISTORICAL_DATA_WINDOW_DAYS + 2
RequestDates ==
    {Today - HISTORICAL_DATA_WINDOW_DAYS - 1, Today - HISTORICAL_DATA_WINDOW_DAYS,
     Today - HISTORICAL_DATA_WINDOW_DAYS + 1, Today - 1, Today, Today + 1}

\* sizes of the API's result set: around every multiple of the page size
ApiTotals ==
    {k * limit + r : k \in 0..MaxPages, r \in {0, 1}}
        \cup {k * limit - 1 : k \in 1..MaxPages}

\* values returned by call_aviationstack: the parsed JSON body, or an error dict
NoError == "<no error key>"
DataResponse(from, n, total) ==
    [error |-> NoError, type |-> "", data |-> [i \in 1..n |-> from + i], total |-> total]
ErrorResponse(error, type) ==
    [error |-> error, type |-> type, data |-> <<>>, total |-> 0]

\* the page the API serves for a request carrying offset o and limit l
ApiPage(o, l) ==
    LET n == IF apiTotal - o <= 0 THEN 0
             ELSE IF apiTotal - o < l THEN apiTotal - o ELSE l
    IN  DataResponse(o, n, apiTotal)

\* 2 ** attempt
RECURSIVE Pow2(_)
Pow2(n) == IF n = 0 THEN 1 ELSE 2 * Pow2(n - 1)

\* wait before the next attempt: RETRY_DELAY * 2 ** attempt
BackoffMutant(a) == RETRY_DELAY
Backoff(a) == RETRY_DELAY * Pow2(a)

\* the except-branch test `attempt < MAX_RETRIES - 1`
RetryAfterExceptionMutant(a) == a < MAX_RETRIES
RetryAfterException(a) == a < MAX_RETRIES - 1

ClientOff ==
    /\ apiTotal = 0
    /\ pc = "off"
    /\ endpoint = "flights"
    /\ date = <<>>
    /\ all_results = <<>>
    /\ offset = 0
    /\ attempt = 0
    /\ response = ErrorResponse(NoError, "")
    /\ outcomes = <<>>
    /\ sleeps = <<>>
    /\ pageCalls = 0
    /\ failedCalls = 0

InitClient ==
    /\ now \in {strptime(Today) + tod : tod \in 0..(TicksPerDay - 1)}
    /\ apiTotal \in ApiTotals
    /\ pc = "idle"
    /\ endpoint = "flights"
    /\ date = <<>>
    /\ all_results = <<>>
    /\ offset = 0
    /\ attempt = 0
    /\ response = ErrorResponse(NoError, "")
    /\ outcomes = <<>>
    /\ sleeps = <<>>
    /\ pageCalls = 0
    /\ failedCalls = 0
    /\ WriterOff
    /\ RunOff

\* fetch_paginated_data: flights endpoint, date outside the window: return []
FetchInvalidDate(e, d) ==
    /\ pc \in {"idle", "fetch_returned"}
    /\ e = "flights" /\ d # <<>> /\ ~is_date_in_valid_range(d[1], now)
    /\ endpoint' = e /\ date' = d
    /\ all_results' = <<>>
    /\ pageCalls' = 0 /\ failedCalls' = 0
    /\ outcomes' = <<>> /\ sleeps' = <<>>
    /\ pc' = "fetch_returned"
    /\ UNCHANGED <<writerVars, runVars>>
    /\ UNCHANGED <<now, apiTotal, offset, attempt, response>>

\* fetch_paginated_data: set up the page loop
FetchBegin(e, d) ==
    /\ pc \in {"idle", "fetch_returned"}
    /\ ~(e = "flights" /\ d # <<>> /\ ~is_date_in_valid_range(d[1], now))
    /\ endpoint' = e /\ date' = d
    /\ all_results' = <<>> /\ offset' = 0
    /\ pageCalls' = 0 /\ failedCalls' = 0
    /\ outcomes' = <<>> /\ sleeps' = <<>>
    /\ pc' = "call"
    /\ UNCHANGED <<writerVars, runVars>>
    /\ UNCHANGED <<now, apiTotal, attempt, response>>

\* the retry counter is kept from one wrapper call to the next
CallBeginMutant ==
    /\ pc = "call"
    /\ outcomes' = <<>> /\ sleeps' = <<>>
    /\ pageCalls' = pageCalls + 1
    /\ pc' = "request"
    /\ UNCHANGED <<writerVars, runVars>>
    /\ UNCHANGED <<now, apiTotal, endpoint, date, all_results, offset, attempt, response,
                   failedCalls>>

\* loop head of fetch_paginated_data: params['offset'] = offset; call the wrapper
CallBegin ==
    /\ pc = "call"
    /\ attempt' = 0
    /\ outcomes' = <<>> /\ sleeps' = <<>>
    /\ pageCalls' = pageCalls + 1
    /\ pc' = "request"
    /\ UNCHANGED <<writerVars, runVars>>
    /\ UNCHANGED <<now, apiTotal, endpoint, date, all_results, offset, response, failedCalls>>

\* call_aviationstack: the request succeeds and the body has no 'error' key
RequestOk ==
    /\ pc = "request" /\ attempt < MAX_RETRIES
    /\ outcomes' = Append(outcomes, "ok")
    /\ response' = ApiPage(offset, limit)
    /\ pc' = "call_returned"
    /\ UNCHANGED <<writerVars, runVars>>
    /\ UNCHANGED <<now, apiTotal, endpoint, date, all_results, offset, attempt, sleeps,
                   pageCalls, failedCalls>>

\* call_aviationstack: requests.get / raise_for_status raises RequestException
RequestException ==
    /\ pc = "request" /\ attempt < MAX_RETRIES
    /\ outcomes' = Append(outcomes, "exception")
    /\ IF RetryAfterException(attempt)
       THEN /\ sleeps' = Append(sleeps, Backoff(attempt))
            /\ attempt' = attempt + 1
            /\ UNCHANGED <<response, pc, failedCalls>>
       ELSE /\ response' = ErrorResponse("RequestException", "")
            /\ failedCalls' = failedCalls + 1
            /\ pc' = "call_returned"
            /\ UNCHANGED <<sleeps, attempt>>
    /\ UNCHANGED <<writerVars, runVars>>
    /\ UNCHANGED <<now, apiTotal, endpoint, date, all_results, offset, pageCalls>>

\* call_aviationstack: the body carries an error that mentions 'rate limit'
RateLimited ==
    /\ pc = "request" /\ attempt < MAX_RETRIES
    /\ outcomes' = Append(outcomes, "rate_limit")
    /\ sleeps' = Append(sleeps, Backoff(attempt))
    /\ attempt' = attempt + 1
    /\ UNCHANGED <<writerVars, runVars>>
    /\ UNCHANGED <<now, apiTotal, pc, endpoint, date, all_results, offset, response,
                   pageCalls, failedCalls>>

\* the date branch taken as the rate-limit branch is: sleep and continue
DateErrorMutant ==
    /\ pc = "request" /\ attempt < MAX_RETRIES
    /\ outcomes' = Append(outcomes, "date_error")
    /\ sleeps' = Append(sleeps, Backoff(attempt))
    /\ attempt' = attempt + 1
    /\ UNCHANGED <<writerVars, runVars>>
    /\ UNCHANGED <<now, apiTotal, pc, endpoint, date, all_results, offset, response,
                   pageCalls, failedCalls>>

\* call_aviationstack: the body carries an error that mentions 'date' or 'historical'
DateError ==
    /\ pc = "request" /\ attempt < MAX_RETRIES
    /\ outcomes' = Append(outcomes, "date_error")
    /\ response' = ErrorResponse("date", "date_error")
    /\ failedCalls' = failedCalls + 1
    /\ pc' = "call_returned"
    /\ UNCHANGED <<writerVars, runVars>>
    /\ UNCHANGED <<now, apiTotal, endpoint, date, all_results, offset, attempt, sleeps,
                   pageCalls>>

\* call_aviationstack: the body carries any other error
ApiError ==
    /\ pc = "request" /\ attempt < MAX_RETRIES
    /\ outcomes' = Append(outcomes, "api_error")
    /\ response' = ErrorResponse("api", "")
    /\ failedCalls' = failedCalls + 1
    /\ pc' = "call_returned"
    /\ UNCHANGED <<writerVars, runVars>>
    /\ UNCHANGED <<now, apiTotal, endpoint, date, all_results, offset, attempt, sleeps,
                   pageCalls>>

\* the function falls off the end of its for loop without a return statement
RetriesExhaustedMutant ==
    /\ pc = "request" /\ attempt >= MAX_RETRIES
    /\ response' = ErrorResponse(NoError, "")
    /\ failedCalls' = failedCalls + 1
    /\ pc' = "call_returned"
    /\ UNCHANGED <<writerVars, runVars>>
    /\ UNCHANGED <<now, apiTotal, endpoint, date, all_results, offset, attempt, outcomes,
                   sleeps, pageCalls>>

\* call_aviationstack: range(MAX_RETRIES) is exhausted
RetriesExhausted ==
    /\ pc = "request" /\ attempt >= MAX_RETRIES
    /\ response' = ErrorResponse("Max retries exceeded", "")
    /\ failedCalls' = failedCalls + 1
    /\ pc' = "call_returned"
    /\ UNCHANGED <<writerVars, runVars>>
    /\ UNCHANGED <<now, apiTotal, endpoint, date, all_results, offset, attempt, outcomes,
                   sleeps, pageCalls>>

\* the error is logged and the loop goes on to the next page
PageErrorMutant ==
    /\ pc = "call_returned" /\ response.error # NoError
    /\ pc' = "call" /\ offset' = offset + limit
    /\ UNCHANGED <<writerVars, runVars>>
    /\ UNCHANGED <<now, apiTotal, endpoint, date, all_results, attempt, response,
                   outcomes, sleeps, pageCalls, failedCalls>>

\* fetch_paginated_data: 'error' in response: log and break
PageError ==
    /\ pc = "call_returned" /\ response.error # NoError
    /\ pc' = "fetch_returned"
    /\ UNCHANGED <<writerVars, runVars>>
    /\ UNCHANGED <<now, apiTotal, endpoint, date, all_results, offset, attempt, response,
                   outcomes, sleeps, pageCalls, failedCalls>>

\* the break test of the page loop: count == 0 or offset + count >= total
LastPageMutant(count, off, total) == count = 0
LastPage(count, off, total) == count = 0 \/ off + count >= total

\* fetch_paginated_data: extend all_results, then stop or move to the next page
PageReceived ==
    /\ pc = "call_returned" /\ response.error = NoError
    /\ LET count == Len(response.data)
       IN  /\ all_results' = all_results \o response.data
           /\ IF LastPage(count, offset, response.total)
              THEN pc' = "fetch_returned" /\ offset' = offset
              ELSE pc' = "call" /\ offset' = offset + limit
    /\ UNCHANGED <<writerVars, runVars>>
    /\ UNCHANGED <<now, apiTotal, endpoint, date, attempt, response, outcomes, sleeps,
                   pageCalls, failedCalls>>

NextClient ==
    \/ \E e \in Endpoints, d \in {<<>>} \cup {<<x>> : x \in RequestDates} :
          FetchInvalidDate(e, d)
    \/ \E e \in Endpoints, d \in {<<>>} \cup {<<x>> : x \in RequestDates} :
          FetchBegin(e, d)
    \/ CallBegin
    \/ RequestOk
    \/ RequestException
    \/ RateLimited
    \/ DateError
    \/ ApiError
    \/ RetriesExhausted
    \/ PageError
    \/ PageReceived

SpecClient == InitClient /\ [][NextClient]_vars

\* the interpreter goes on executing: a step of the client that can be taken
\* is taken
SpecClientFair == InitClient /\ [][NextClient]_vars /\ WF_vars(NextClient)

(***************************************************************************)
(* Properties of the client.                                                *)
(***************************************************************************)

CeilDiv(n, p) == (n + p - 1) \div p

\* the current fetch went through the page loop and has returned
FetchCompleted == pc = "fetch_returned" /\ pageCalls > 0

\* the current fetch was refused by the date check
FetchRejected == pc = "fetch_returned" /\ pageCalls = 0

\* every response of the current wrapper call is of class c
AllOutcomes(c) == outcomes # <<>> /\ \A i \in 1..Len(outcomes) : outcomes[i] = c

\* C2 as stated: a fetch in which no wrapper call failed made exactly
\* ceil(N/P) page calls and returned exactly the N records, for N >= 0.
C2_Original ==
    (FetchCompleted /\ failedCalls = 0) =>
        /\ pageCalls = CeilDiv(apiTotal, limit)
        /\ Len(all_results) = apiTotal

\* C2 (amended): a fetch in which no wrapper call failed made exactly
\* max(1, ceil(N/P)) page calls (one call is needed to learn that N = 0) and
\* returned exactly the N records of the API, each once and in order.
C2_PaginationComplete ==
    (FetchCompleted /\ failedCalls = 0) =>
        /\ pageCalls = (IF apiTotal = 0 THEN 1 ELSE CeilDiv(apiTotal, limit))
        /\ all_results = [i \in 1..apiTotal |-> i]

C2_Witness ==
    /\ FetchCompleted /\ failedCalls = 0
    /\ pageCalls > 1 /\ apiTotal % limit = 0

\* C5 as stated: with D the day of the clock and W the window, the date check
\* refuses only dates outside D-W .. D (so D-W passes at any time of day), and
\* a refused fetch returns an empty result and records no failure.
C5_DateBoundary ==
    FetchRejected =>
        /\ (date[1] < strftime(now) - HISTORICAL_DATA_WINDOW_DAYS \/ date[1] > strftime(now))
        /\ all_results = <<>> /\ failedCalls = 0

\* C9: at most MAX_RETRIES requests are issued in one wrapper call, and a call
\* whose every attempt raised RequestException issued exactly MAX_RETRIES
\* requests and returned the error built from the exception.
C9_BoundedRetry ==
    /\ Len(outcomes) <= MAX_RETRIES
    /\ (pc = "call_returned" /\ AllOutcomes("exception")) =>
           /\ Len(outcomes) = MAX_RETRIES
           /\ response = ErrorResponse("RequestException", "")

C9_Witness ==
    pc = "call_returned" /\ AllOutcomes("exception") /\ Len(outcomes) = MAX_RETRIES

\* C10 as stated: after two rate-limited responses in a row the call issues
\* no third request.
C10_Original ==
    (Len(outcomes) >= 2 /\ outcomes[1] = "rate_limit" /\ outcomes[2] = "rate_limit") =>
        Len(outcomes) <= 2

\* C10 (amended): a rate-limited response at attempt a is followed by a wait
\* of RETRY_DELAY * 2^a and uses up one attempt of the MAX_RETRIES budget; a
\* call whose every response is rate-limited issues exactly MAX_RETRIES
\* requests and returns the error 'Max retries exceeded'.
C10_RateLimitRetry ==
    /\ \A i \in 1..Len(outcomes) :
           outcomes[i] = "rate_limit" =>
               i <= Len(sleeps) /\ sleeps[i] = RETRY_DELAY * Pow2(i - 1)
    /\ (pc = "call_returned" /\ AllOutcomes("rate_limit")) =>
           /\ Len(outcomes) = MAX_RETRIES
           /\ response = ErrorResponse("Max retries exceeded", "")

C10_Witness ==
    pc = "call_returned" /\ AllOutcomes("rate_limit") /\ Len(outcomes) = MAX_RETRIES

\* C11: a response classified as a date error or as any other API error is
\* the last response of its wrapper call: no further request is issued, and
\* the call returns the error of that class (the date error with type
\* 'date_error').
C11_NoRetryOfFatal ==
    \A i \in 1..Len(outcomes) :
        outcomes[i] \in {"date_error", "api_error"} =>
            /\ i = Len(outcomes)
            /\ pc \in {"call_returned", "fetch_returned"}
            /\ Len(sleeps) = i - 1
            /\ response = IF outcomes[i] = "date_error"
                          THEN ErrorResponse("date", "date_error")
                          ELSE ErrorResponse("api", "")

C11_Witness ==
    pc = "call_returned" /\ outcomes = <<"date_error">> /\ attempt = 0

\* the value a wrapper call must return after the responses it has seen
ReturnFor(last) ==
    CASE last = "ok" -> ApiPage(offset, limit)
      [] last = "exception" -> ErrorResponse("RequestException", "")
      [] last = "rate_limit" -> ErrorResponse("Max retries exceeded", "")
      [] last = "date_error" -> ErrorResponse("date", "date_error")
      [] last = "api_error" -> ErrorResponse("api", "")

OutsideWindow(d) ==
    d < strftime(now) - HISTORICAL_DATA_WINDOW_DAYS \/ d > strftime(now)

\* C15: a fetch of the flights endpoint for a date outside the window returns
\* an empty result without a single wrapper call or request.
C15_ShortCircuit ==
    (pc = "fetch_returned" /\ endpoint = "flights" /\ date # <<>> /\ OutsideWindow(date[1])) =>
        /\ pageCalls = 0 /\ outcomes = <<>>
        /\ all_results = <<>>

C15_Witness ==
    /\ pc = "fetch_returned" /\ endpoint = "flights" /\ date # <<>>
    /\ date[1] > strftime(now)

\* the wrapper call of a page has returned, and the page ends the fetch: it
\* is a classified failure, or it holds no record, or with it the records
\* received reach the total the API reports
FinalPage ==
    /\ pc = "call_returned"
    /\ \/ response.error # NoError
       \/ Len(response.data) = 0
       \/ Len(all_results) + Len(response.data) >= response.total

\* C27: the k-th page call of a fetch carries offset (k-1)*limit (and the
\* fixed limit); after a final page the fetch returns, and it makes no page
\* call once it has returned.
C27_PaginationProtocol ==
    /\ [](pc \in {"request", "call_returned"} => offset = (pageCalls - 1) * limit)
    /\ [][FinalPage => (pc' = "fetch_returned" /\ pageCalls' = pageCalls)]_vars
    /\ [][(pc = "fetch_returned" /\ pageCalls' # pageCalls) => pageCalls' = 0]_vars

C27_Witness ==
    /\ pc = "fetch_returned" /\ pageCalls = 3 /\ offset = 2 * limit
    /\ failedCalls = 0 /\ Len(all_results) = apiTotal

\* C32: the wait after a request that raised RequestException is RETRY_DELAY,
\* whatever the number of the attempt.
C32_FixedRetryDelay ==
    \A i \in 1..Len(sleeps) :
        outcomes[i] = "exception" => sleeps[i] = RETRY_DELAY

\* the call in progress has received a rate-limited response and has had a
\* request raise
MixedOutcomes ==
    /\ \E i \in 1..Len(outcomes) : outcomes[i] = "rate_limit"
    /\ \E i \in 1..Len(outcomes) : outcomes[i] = "exception"

\* C36: a wrapper call issues at most MAX_RETRIES + 1 requests, whatever mix
\* of rate-limited responses and raised requests it meets, and returns; and
\* every wrapper call starts with its retry counter at zero and no request
\* issued, whatever happened in the call before it.
C36_CallTerminates ==
    /\ [](Len(outcomes) <= MAX_RETRIES + 1)
    /\ [][(pc = "call" /\ pc' = "request") => (attempt' = 0 /\ outcomes' = <<>>)]_vars
    /\ (pc = "request") ~> (pc = "call_returned")

C36_Witness ==
    /\ pc = "call_returned" /\ pageCalls > 1
    /\ MixedOutcomes /\ Len(outcomes) = MAX_RETRIES


(***************************************************************************)
(* The writers, each applied to a table left by earlier writes; the same    *)
(* batch may then be written a second time.                                 *)
(***************************************************************************)

InitWriter ==
    /\ now = strptime(Today)
    /\ ClientOff
    /\ RunOff
    /\ \E kind \in Kinds :
          store \in {[EmptyStore EXCEPT ![kind] = t] : t \in Tables(kind)}
    /\ wpc = "ready"
    /\ w_kind = "Flight"
    /\ w_batch = <<>>
    /\ w_fail = NoFailure
    /\ before = EmptyStore
    /\ once = EmptyStore
    /\ report = NoReport

\* one call process_<kind>_data(batch, session): the loop, then the commit
WriteBatch(kind, batch, fail) ==
    /\ \/ wpc = "ready"
       \/ /\ wpc = "written"
          /\ kind = w_kind /\ batch = w_batch
          /\ fail = NoFailure /\ w_fail = NoFailure
    /\ store' = [store EXCEPT ![kind] = Commit(kind, @, batch, fail)]
    /\ report' = Report(kind, store[kind], batch, fail)
    /\ wpc' = IF wpc = "ready" THEN "written" ELSE "rewritten"
    /\ before' = IF wpc = "ready" THEN store ELSE before
    /\ once' = IF wpc = "ready" THEN store' ELSE once
    /\ w_kind' = kind /\ w_batch' = batch /\ w_fail' = fail
    /\ UNCHANGED <<clientVars, runVars>>

\* the arguments of a call: any batch, or for the second write the batch of
\* the first
BatchArguments(kind) ==
    IF wpc = "ready" THEN Batches(kind, MaxBatch)
    ELSE IF kind = w_kind THEN {w_batch} ELSE {}

process_flights_data ==
    \E batch \in BatchArguments("Flight") :
        \E fail \in Failures(batch) : WriteBatch("Flight", batch, fail)

process_airlines_data ==
    \E batch \in BatchArguments("Airline") :
        \E fail \in Failures(batch) : WriteBatch("Airline", batch, fail)

process_airports_data ==
    \E batch \in BatchArguments("Airport") :
        \E fail \in Failures(batch) : WriteBatch("Airport", batch, fail)

process_routes_data ==
    \E batch \in BatchArguments("Route") :
        \E fail \in Failures(batch) : WriteBatch("Route", batch, fail)

NextWriter ==
    \/ process_flights_data
    \/ process_airlines_data
    \/ process_airports_data
    \/ process_routes_data

SpecWriter == InitWriter /\ [][NextWriter]_vars

(***************************************************************************)
(* Properties of the writers.                                               *)
(***************************************************************************)

\* the required-field sets of the data model: a route needs no airline code
DocumentedRequiredFields(kind) ==
    IF kind = "Route" THEN {"flight_number", "departure_iata", "arrival_iata"}
    ELSE RequiredFields(kind)

MeetsDocumentedFields(kind, r) == \A f \in DocumentedRequiredFields(kind) : Truthy(r[f])

\* the first write of the batch has returned, and nothing raised in it
WrittenCleanly == wpc = "written" /\ w_fail = NoFailure

\* table holds a row with the key fields of record r / the payload of r
HoldsKeyOf(kind, table, r) ==
    \E j \in 1..Len(table) : \A f \in index_elements(kind) : table[j][f] = r[f]
HoldsPayload(table, r) == \E j \in 1..Len(table) : table[j].raw_payload = r

Dropped(kind, batch) ==
    Cardinality({i \in 1..Len(batch) : ~MeetsDocumentedFields(kind, batch[i])})

\* C1: writing a batch a second time leaves every table as the first write
\* left it: the same rows with the same values.
C1_Idempotent == wpc = "rewritten" => store = once

\* C6: after a write in which nothing raised, a record is in the table if and
\* only if it has every documented required field, a record without them has
\* left nothing in the table, and the drop counter is the number of such
\* records.
C6_RequiredFields ==
    WrittenCleanly =>
        /\ \A i \in 1..Len(w_batch) :
              IF MeetsDocumentedFields(w_kind, w_batch[i])
              THEN HoldsKeyOf(w_kind, store[w_kind], w_batch[i])
              ELSE HoldsPayload(store[w_kind], w_batch[i])
                       => HoldsPayload(before[w_kind], w_batch[i])
        /\ Dropped(w_kind, w_batch) > 0 => report.skipped = <<Dropped(w_kind, w_batch)>>

\* C7: after a routes write in which nothing raised, a record with flight
\* number, departure and arrival code but no airline code is a row of the
\* table with a NULL airline code.
C7_NullAirlineRoute ==
    (WrittenCleanly /\ w_kind = "Route") =>
        \A i \in 1..Len(w_batch) :
            (w_batch[i].airline_iata = NULL /\ MeetsDocumentedFields("Route", w_batch[i]))
                => \E j \in 1..Len(store.Route) :
                       /\ store.Route[j].raw_payload = w_batch[i]
                       /\ store.Route[j].airline_iata = NULL

\* C8: after a reference or routes write in which nothing raised, the count
\* the writer reports as processed is the fetched count less the records
\* dropped for a missing required field.
C8_CountConservation ==
    (WrittenCleanly /\ w_kind # "Flight") =>
        report.processed = <<Len(w_batch) - Dropped(w_kind, w_batch)>>

\* C22: a row that is in a table keeps its raw_payload in every later state,
\* whatever is written after it, a record with the same natural key and
\* another payload included.
C22_RawPayloadImmutable ==
    [][\A kind \in Kinds : \A j \in 1..Len(store[kind]) :
          /\ j <= Len(store'[kind])
          /\ store'[kind][j].raw_payload = store[kind][j].raw_payload]_vars

\* route record r has no airline code and has the other three key fields
NullAirlineRoute(r) == r.airline_iata = NULL /\ MeetsDocumentedFields("Route", r)

\* C23: after a routes write in which nothing raised, of a batch of two
\* records without airline code and with the same flight number, departure
\* and arrival code, the routes table holds two rows more than before: the
\* second record did not conflict with the first.
C23_NullKeysDistinct ==
    (/\ WrittenCleanly /\ w_kind = "Route" /\ Len(w_batch) = 2
     /\ NullAirlineRoute(w_batch[1]) /\ NullAirlineRoute(w_batch[2])
     /\ \A f \in index_elements("Route") : w_batch[1][f] = w_batch[2][f])
        => Len(store.Route) = Len(before.Route) + 2

\* a and b (records or rows) have the same natural key / a has no NULL in it
SameKey(kind, a, b) == \A f \in index_elements(kind) : a[f] = b[f]
CompleteKey(kind, a) == \A f \in index_elements(kind) : a[f] # NULL

\* the records of the batch that the writer has written: those with the
\* required fields
Written(kind, batch) == {i \in 1..Len(batch) : HasRequiredFields(kind, batch[i])}

\* the batch has been written, once or twice, and nothing raised
WrittenOrRewrittenCleanly == wpc \in {"written", "rewritten"} /\ w_fail = NoFailure

\* C24: no table ever holds two rows with the same complete natural key, and
\* after a write in which nothing raised, every written record with a
\* complete key has exactly one row, whether or not the key was in the table
\* before or earlier in the batch, and the fields of that row are those of
\* the last record of the batch written with that key.
C24_ConflictResolution ==
    /\ \A kind \in Kinds : \A j, k \in 1..Len(store[kind]) :
          (CompleteKey(kind, store[kind][j]) /\ SameKey(kind, store[kind][j], store[kind][k]))
              => j = k
    /\ WrittenOrRewrittenCleanly =>
          \A i \in Written(w_kind, w_batch) :
              CompleteKey(w_kind, w_batch[i]) =>
                  LET same == {n \in Written(w_kind, w_batch) :
                                  SameKey(w_kind, w_batch[n], w_batch[i])}
                      last == CHOOSE n \in same : \A o \in same : o <= n
                  IN  \E j \in 1..Len(store[w_kind]) :
                         /\ SameKey(w_kind, store[w_kind][j], w_batch[i])
                         /\ store[w_kind][j] = Row(w_kind, w_batch[last])

C24_Witness ==
    /\ wpc = "written" /\ w_fail = NoFailure /\ w_kind = "Flight"
    /\ Len(w_batch) = 2 /\ w_batch[1] # w_batch[2]
    /\ Written("Flight", w_batch) = {1, 2}
    /\ CompleteKey("Flight", w_batch[1]) /\ SameKey("Flight", w_batch[1], w_batch[2])
    /\ HoldsKeyOf("Flight", before.Flight, w_batch[1])
    /\ Len(store.Flight) = Len(before.Flight)

\* C25: the airlines table never holds two rows with the same iata_code.
C25_AirlineKey ==
    \A j, k \in 1..Len(store.Airline) :
        (/\ store.Airline[j].iata_code # NULL
         /\ store.Airline[j].iata_code = store.Airline[k].iata_code) => j = k

(***************************************************************************)
(* The runs: process_available_historical_data, process_date_range,         *)
(* resume_processing and collect_daily_data, started from __main__.         *)
(***************************************************************************)

\* generate_date_list(start_date, end_date, reverse): the '%Y-%m-%d' of
\* start_date, start_date + 1 day, ... while not after end_date
generate_date_list(start, end, reverse) ==
    LET n == IF start > end THEN 0 ELSE (end - start) \div timedelta(1) + 1
        dates == [k \in 1..n |-> strftime(start + timedelta(k - 1))]
    IN  IF reverse THEN [k \in 1..n |-> dates[n + 1 - k]] ELSE dates

\* flights the API holds: two records for each of a few dates
FlightFor(d) == [FlightRecord EXCEPT !.flight_date = ToString(d)]
DataDates == {Today, Today - 1, Today - 3, Today - HISTORICAL_DATA_WINDOW_DAYS}
ApiFlights(d) ==
    IF d \in DataDates
    THEN <<FlightFor(d), [FlightFor(d) EXCEPT !.flight_iata = NULL]>>
    ELSE <<>>

\* what fetch_paginated_data('flights', d) can return: everything, or, when a
\* page call fails, the records of the pages before it
FetchResults(d) == {SubSeq(ApiFlights(d), 1, k) : k \in 0..Len(ApiFlights(d))}

\* what fetch_paginated_data(<reference endpoint>) returns
ReferenceKinds == <<"Airline", "Airport", "Route">>
ApiReference(kind) ==
    CASE kind = "Airline" -> <<AirlineRecord, [AirlineRecord EXCEPT !.id = NULL]>>
      [] kind = "Airport" -> <<AirportRecord, [AirportRecord EXCEPT !.iata_code = NULL]>>
      [] kind = "Route" -> <<RouteRecord, [RouteRecord EXCEPT !.airline_iata = NULL]>>

\* the query raises, and the except branch returns False
has_data_for_dateMutant(d, flights) == FALSE

\* has_data_for_date(date_str, session): count of flights rows of the date > 0
has_data_for_date(d, flights) ==
    \E j \in 1..Len(flights) : flights[j].flight_date = ToString(d)

\* command-line arguments of --date-range, and checkpoints a run can find
RangeArguments ==
    {<<Today - 2, Today>>, <<Today - HISTORICAL_DATA_WINDOW_DAYS - 2, Today - HISTORICAL_DATA_WINDOW_DAYS + 1>>,
     <<Today - 1, Today + 2>>, <<Today, Today - 1>>}
Checkpoints ==
    {<<>>, <<Today>>, <<Today - 1>>, <<Today - 2>>,
     <<Today - HISTORICAL_DATA_WINDOW_DAYS - 1>>, <<Today - HISTORICAL_DATA_WINDOW_DAYS - 3>>}

InitRun ==
    /\ now \in {strptime(Today) + tod : tod \in 0..(TicksPerDay - 1)}
    /\ ClientOff
    /\ store \in {EmptyStore,
                  [EmptyStore EXCEPT !.Flight = Commit("Flight", <<>>, ApiFlights(Today - 1), NoFailure)]}
    /\ wpc = "off"
    /\ w_kind = "Flight"
    /\ w_batch = <<>>
    /\ w_fail = NoFailure
    /\ before = EmptyStore
    /\ once = EmptyStore
    /\ report = NoReport
    /\ rpc = "idle"
    /\ mode = "none"
    /\ start_date = 0
    /\ end_date = 0
    /\ fetch_supporting_data = FALSE
    /\ date_list = <<>>
    /\ checkpoint \in Checkpoints
    /\ last_date_str = <<>>
    /\ earlier = {}
    /\ refs = <<>>
    /\ visited = <<>>
    /\ requested = {}
    /\ cycle = NoCycle
    /\ failures = 0

\* time passes during a run. The date loop reads the clock only in the date
\* check of the fetch, whose answer changes with the time only for the oldest
\* dates of the window, the last ones of the iteration order: the steps of
\* the clock are taken before the loop and before these dates.
Tick ==
    /\ \/ rpc \in {"resume", "date_range"}
       \/ rpc = "dates" /\ date_list # <<>> /\ Len(date_list) <= 2
    /\ now < strptime(Today) + TicksPerDay - 1 + MaxClock
    /\ now' = now + 1
    /\ UNCHANGED <<apiTotal, pc, endpoint, date, all_results, offset, attempt, response,
                   outcomes, sleeps, pageCalls, failedCalls>>
    /\ UNCHANGED <<writerVars, runVars>>

\* process_available_historical_data(fetch_supporting_data), up to its loops
StartHistorical(flag) ==
    /\ LET r == get_valid_date_range(now)
       IN  /\ start_date' = r.start_date
           /\ end_date' = r.end_date
           /\ date_list' = generate_date_list(r.start_date, r.end_date, TRUE)
    /\ fetch_supporting_data' = flag
    /\ rpc' = IF flag THEN "refs" ELSE "dates"
    /\ refs' = <<>> /\ visited' = <<>> /\ requested' = {}
    /\ UNCHANGED <<checkpoint, last_date_str, earlier, cycle, failures>>
    /\ UNCHANGED <<clientVars, writerVars>>

\* __main__ --historical [--skip-reference]
MainHistorical(skip_reference) ==
    /\ rpc = "idle"
    /\ mode' = "historical"
    /\ StartHistorical(~skip_reference)

\* __main__ --date-range START_DATE END_DATE [--skip-reference]
MainDateRange(range, skip_reference) ==
    /\ rpc = "idle"
    /\ mode' = "date_range"
    /\ start_date' = strptime(range[1])
    /\ end_date' = strptime(range[2])
    /\ fetch_supporting_data' = ~skip_reference
    /\ rpc' = "date_range"
    /\ UNCHANGED <<date_list, checkpoint, last_date_str, earlier, refs, visited, requested, cycle, failures>>
    /\ UNCHANGED <<clientVars, writerVars>>

\* __main__ --resume: end_date = datetime.now(); resume_processing(end_date)
MainResume ==
    /\ rpc = "idle"
    /\ mode' = "resume"
    /\ end_date' = now
    /\ rpc' = "resume"
    /\ UNCHANGED <<start_date, fetch_supporting_data, date_list, checkpoint, last_date_str, earlier,
                   refs, visited,
                   requested, cycle, failures>>
    /\ UNCHANGED <<clientVars, writerVars>>

\* __main__ --resume, started after a run that ended when the write of
\* checkpoint.txt failed
ResumeAfterFailure ==
    /\ rpc = "done" /\ cycle.checkpoint_failed /\ earlier = {}
    /\ mode' = "resume"
    /\ end_date' = now
    /\ rpc' = "resume"
    /\ earlier' = {visited[i] : i \in 1..Len(visited)}
    /\ cycle' = NoCycle
    /\ UNCHANGED <<start_date, fetch_supporting_data, date_list, checkpoint, last_date_str,
                   refs, visited, requested, failures>>
    /\ UNCHANGED <<clientVars, writerVars>>

\* the process of a historical run is interrupted from outside between two
\* date cycles (after at most MaxInterrupt of them), and the script is started
\* again with --resume; nothing fails in either run
Interrupt ==
    /\ rpc = "dates" /\ mode = "historical" /\ earlier = {} /\ failures = 0
    /\ visited # <<>> /\ Len(visited) <= MaxInterrupt /\ date_list # <<>>
    /\ mode' = "resume"
    /\ end_date' = now
    /\ rpc' = "resume"
    /\ earlier' = {visited[i] : i \in 1..Len(visited)}
    /\ cycle' = NoCycle
    /\ failures' = MaxFailures
    /\ UNCHANGED <<start_date, fetch_supporting_data, date_list, checkpoint, last_date_str,
                   refs, visited, requested>>
    /\ UNCHANGED <<clientVars, writerVars>>

\* FileNotFoundError handled as any other exception is: log it and return
ResumeWithoutCheckpointMutant ==
    /\ rpc = "resume" /\ checkpoint = <<>>
    /\ rpc' = "done"
    /\ UNCHANGED <<mode, start_date, end_date, fetch_supporting_data, date_list, checkpoint,
                   last_date_str, earlier, refs, visited, requested, cycle, failures>>
    /\ UNCHANGED <<clientVars, writerVars>>

\* resume_processing: no checkpoint file: process_available_historical_data()
ResumeWithoutCheckpoint ==
    /\ rpc = "resume" /\ checkpoint = <<>>
    /\ StartHistorical(TRUE)
    /\ UNCHANGED mode

\* resume_processing: start one day after the checkpoint, not before the window
ResumeFromCheckpoint ==
    /\ rpc = "resume" /\ checkpoint # <<>>
    /\ LET start == strptime(checkpoint[1]) + timedelta(1)
           valid == get_valid_date_range(now)
       IN  start_date' = IF start < valid.start_date THEN valid.start_date ELSE start
    /\ last_date_str' = checkpoint
    /\ UNCHANGED earlier
    /\ fetch_supporting_data' = FALSE
    /\ rpc' = "date_range"
    /\ UNCHANGED <<mode, end_date, date_list, checkpoint, refs, visited, requested, cycle,
                   failures>>
    /\ UNCHANGED <<clientVars, writerVars>>

\* process_date_range(start_date, end_date, fetch_supporting_data), up to its loops
ProcessDateRange ==
    /\ rpc = "date_range"
    /\ LET valid == get_valid_date_range(now)
           start == IF start_date < valid.start_date THEN valid.start_date ELSE start_date
           end == IF end_date > valid.end_date THEN valid.end_date ELSE end_date
       IN  /\ start_date' = start
           /\ end_date' = end
           /\ IF start > end
              THEN rpc' = "done" /\ date_list' = <<>>
              ELSE /\ rpc' = IF fetch_supporting_data THEN "refs" ELSE "dates"
                   /\ date_list' = generate_date_list(start, end, TRUE)
    /\ refs' = <<>> /\ visited' = <<>> /\ requested' = {}
    /\ UNCHANGED <<mode, fetch_supporting_data, checkpoint, last_date_str, earlier, cycle, failures>>
    /\ UNCHANGED <<clientVars, writerVars>>

\* failures a run may still inject; a failure of the checkpoint file is
\* injected only after a write of flights, as the one failure of a run and of
\* the resume run after it
Budget(n) == failures + n <= MaxFailures
Cost(cond) == IF cond THEN 1 ELSE 0

\* the reference block: fetch_paginated_data(endpoint), then process_<kind>_data
ProcessReference ==
    /\ rpc = "refs"
    /\ LET kind == ReferenceKinds[Len(refs) + 1]
       IN  \E batch \in {ApiReference(kind), <<>>} :
           \E fail \in Failures(batch) :
              /\ Budget(Cost(batch = <<>>) + Cost(fail # NoFailure))
              /\ failures' = failures + Cost(batch = <<>>) + Cost(fail # NoFailure)
              /\ store' = [store EXCEPT ![kind] = Commit(kind, @, batch, fail)]
              /\ refs' = Append(refs, kind)
              /\ rpc' = IF Report(kind, store[kind], batch, fail).raised THEN "done"
                        ELSE IF Len(refs) + 1 = Len(ReferenceKinds) THEN "dates"
                        ELSE "refs"
    /\ UNCHANGED <<mode, start_date, end_date, fetch_supporting_data, date_list, checkpoint,
                   last_date_str, earlier, visited, requested, cycle>>
    /\ UNCHANGED <<wpc, w_kind, w_batch, w_fail, before, once, report>>
    /\ UNCHANGED clientVars

\* date loop: has_data_for_date is true: log and continue
SkipDate ==
    /\ rpc = "dates" /\ date_list # <<>>
    /\ has_data_for_date(Head(date_list), store.Flight)
    /\ visited' = Append(visited, Head(date_list))
    /\ date_list' = Tail(date_list)
    /\ cycle' = [NoCycle EXCEPT !.date = Head(date_list), !.skipped = TRUE,
                                 !.flights_before = store.Flight,
                                 !.checkpoint_before = checkpoint]
    /\ UNCHANGED <<rpc, mode, start_date, end_date, fetch_supporting_data, checkpoint,
                   last_date_str, earlier, refs, requested, failures>>
    /\ UNCHANGED <<clientVars, writerVars>>

\* date loop: fetch the flights of the date, write them if there are any,
\* write the date to checkpoint.txt; an exception that leaves the loop body
\* (open or write of the checkpoint file, or one the writer lets through) is
\* caught around the whole loop, logged, and ends the run
ProcessDate ==
    /\ rpc = "dates" /\ date_list # <<>>
    /\ ~has_data_for_date(Head(date_list), store.Flight)
    /\ LET d == Head(date_list)
           valid == is_date_in_valid_range(d, now)
       IN  \E flights_data \in IF valid THEN FetchResults(d) ELSE {<<>>} :
           \E fail \in Failures(flights_data), checkpoint_raises \in BOOLEAN :
              LET fetch_failed == valid /\ flights_data # ApiFlights(d)
                  written == IF flights_data = <<>> THEN NoReport
                             ELSE Report("Flight", store.Flight, flights_data, fail)
                  raised == written.raised \/ checkpoint_raises
                  n == Cost(fetch_failed) + Cost(fail # NoFailure)
                         + (IF checkpoint_raises THEN MaxFailures ELSE 0)
              IN  /\ Budget(n)
                  /\ checkpoint_raises => flights_data # <<>>
                  /\ failures' = failures + n
                  /\ requested' = IF valid THEN requested \cup {d} ELSE requested
                  /\ store' = [store EXCEPT !.Flight =
                                  IF flights_data = <<>> THEN @
                                  ELSE Commit("Flight", @, flights_data, fail)]
                  /\ checkpoint' = IF raised THEN checkpoint ELSE <<d>>
                  /\ rpc' = IF raised THEN "done" ELSE rpc
                  /\ cycle' = [date |-> d, skipped |-> FALSE, fetched |-> flights_data,
                               fetch_failed |-> fetch_failed, fail |-> fail,
                               report |-> written,
                               checkpoint_failed |-> checkpoint_raises /\ ~written.raised,
                               flights_before |-> store.Flight,
                               checkpoint_before |-> checkpoint]
    /\ visited' = Append(visited, Head(date_list))
    /\ date_list' = Tail(date_list)
    /\ UNCHANGED <<mode, start_date, end_date, fetch_supporting_data, last_date_str, earlier, refs>>
    /\ UNCHANGED <<wpc, w_kind, w_batch, w_fail, before, once, report>>
    /\ UNCHANGED clientVars

\* the date loop is over: session.close()
RunEnd ==
    /\ rpc = "dates" /\ date_list = <<>>
    /\ rpc' = "done"
    /\ UNCHANGED <<mode, start_date, end_date, fetch_supporting_data, date_list, checkpoint,
                   last_date_str, earlier, refs, visited, requested, cycle, failures>>
    /\ UNCHANGED <<clientVars, writerVars>>

\* __main__ --daily: collect_daily_data()
MainDaily ==
    /\ rpc = "idle"
    /\ mode' = "daily"
    /\ LET d == strftime(now - timedelta(1))
           valid == is_date_in_valid_range(d, now)
       IN  IF has_data_for_date(d, store.Flight)
           THEN /\ cycle' = [NoCycle EXCEPT !.date = d, !.skipped = TRUE,
                                            !.flights_before = store.Flight,
                                            !.checkpoint_before = checkpoint]
                /\ UNCHANGED <<store, requested, failures>>
           ELSE \E flights_data \in IF valid THEN FetchResults(d) ELSE {<<>>} :
                \E fail \in Failures(flights_data) :
                   /\ Budget(Cost(valid /\ flights_data # ApiFlights(d)) + Cost(fail # NoFailure))
                   /\ failures' = failures + Cost(valid /\ flights_data # ApiFlights(d))
                                            + Cost(fail # NoFailure)
                   /\ requested' = IF valid THEN requested \cup {d} ELSE requested
                   /\ store' = [store EXCEPT !.Flight = IF flights_data = <<>> THEN @
                                                     ELSE Commit("Flight", @, flights_data, fail)]
                   /\ cycle' = [date |-> d, skipped |-> FALSE, fetched |-> flights_data,
                                fetch_failed |-> valid /\ flights_data # ApiFlights(d),
                                fail |-> fail,
                                report |-> IF flights_data = <<>> THEN NoReport
                                           ELSE Report("Flight", store.Flight, flights_data, fail),
                                checkpoint_failed |-> FALSE,
                                flights_before |-> store.Flight,
                                checkpoint_before |-> checkpoint]
    /\ visited' = <<strftime(now - timedelta(1))>>
    /\ rpc' = "done"
    /\ UNCHANGED <<start_date, end_date, fetch_supporting_data, date_list, checkpoint,
                   last_date_str, earlier, refs>>
    /\ UNCHANGED <<wpc, w_kind, w_batch, w_fail, before, once, report>>
    /\ UNCHANGED clientVars

NextRun ==
    \/ Tick
    \/ \E skip_reference \in BOOLEAN : MainHistorical(skip_reference)
    \/ \E range \in RangeArguments, skip_reference \in BOOLEAN :
          MainDateRange(range, skip_reference)
    \/ MainResume
    \/ ResumeAfterFailure
    \/ Interrupt
    \/ MainDaily
    \/ ResumeWithoutCheckpoint
    \/ ResumeFromCheckpoint
    \/ ProcessDateRange
    \/ ProcessReference
    \/ SkipDate
    \/ ProcessDate
    \/ RunEnd

SpecRun == InitRun /\ [][NextRun]_vars

\* the script runs on: every step of a run is taken once it can be
Progress == NextRun /\ now' = now
SpecRunFair == InitRun /\ [][NextRun]_vars /\ WF_vars(Progress)

(***************************************************************************)
(* The worker call by call: process_date_range as the sequence of its calls *)
(* to fetch_paginated_data (whose page loop runs as in the client above)    *)
(* and to the writers, each a call and a return.                            *)
(***************************************************************************)

\* sizes of the API's result set in these runs: a page at most
WorkerTotals == 0..Len(ReferenceKinds)

\* the n records fetch_paginated_data has returned, as the writer receives them
Fetched(kind, d, n) ==
    LET all == IF kind = "Flight"
               THEN <<FlightFor(d), [FlightFor(d) EXCEPT !.flight_status = ""],
                      [FlightFor(d) EXCEPT !.flight_iata = NULL]>>
               ELSE ApiReference(kind) \o <<ApiReference(kind)[1]>>
    IN  SubSeq(all, 1, IF n < Len(all) THEN n ELSE Len(all))

EndpointOf(kind) ==
    CASE kind = "Flight" -> "flights"
      [] kind = "Airline" -> "airlines"
      [] kind = "Airport" -> "airports"
      [] kind = "Route" -> "routes"

InitWorker ==
    /\ now = strptime(Today)
    /\ apiTotal \in WorkerTotals
    /\ pc = "idle"
    /\ endpoint = "flights"
    /\ date = <<>>
    /\ all_results = <<>>
    /\ offset = 0
    /\ attempt = 0
    /\ response = ErrorResponse(NoError, "")
    /\ outcomes = <<>>
    /\ sleeps = <<>>
    /\ pageCalls = 0
    /\ failedCalls = 0
    /\ store \in {EmptyStore,
                  [EmptyStore EXCEPT !.Flight = Commit("Flight", <<>>, ApiFlights(Today - 1), NoFailure)]}
    /\ wpc = "ready"
    /\ w_kind = "Flight"
    /\ w_batch = <<>>
    /\ w_fail = NoFailure
    /\ before = EmptyStore
    /\ once = EmptyStore
    /\ report = NoReport
    /\ rpc = "idle"
    /\ mode = "none"
    /\ start_date = 0
    /\ end_date = 0
    /\ fetch_supporting_data = FALSE
    /\ date_list = <<>>
    /\ checkpoint = <<>>
    /\ last_date_str = <<>>
    /\ earlier = {}
    /\ refs = <<>>
    /\ visited = <<>>
    /\ requested = {}
    /\ cycle = NoCycle
    /\ failures = 0

\* the call fetch_paginated_data(e, d): the date check, then the page loop
CallFetch(e, d) ==
    /\ pc \in {"idle", "fetch_returned"}
    /\ endpoint' = e /\ date' = d
    /\ all_results' = <<>>
    /\ pageCalls' = 0 /\ failedCalls' = 0
    /\ outcomes' = <<>> /\ sleeps' = <<>>
    /\ IF e = "flights" /\ d # <<>> /\ ~is_date_in_valid_range(d[1], now)
       THEN pc' = "fetch_returned" /\ offset' = offset
       ELSE pc' = "call" /\ offset' = 0
    /\ UNCHANGED <<now, apiTotal, attempt, response>>

\* the call process_<kind>_data(batch, session)
CallWriter(kind, batch) ==
    /\ wpc \in {"ready", "written"}
    /\ wpc' = "writing"
    /\ w_kind' = kind /\ w_batch' = batch
    /\ UNCHANGED <<store, w_fail, before, once, report>>

\* process_<kind>_data returns, or lets the exception of its commit through
WriterReturns(fail) ==
    /\ wpc = "writing"
    /\ fail \in Failures(w_batch)
    /\ Budget(Cost(fail # NoFailure))
    /\ failures' = failures + Cost(fail # NoFailure)
    /\ store' = [store EXCEPT ![w_kind] = Commit(w_kind, @, w_batch, fail)]
    /\ wpc' = "written"
    /\ w_fail' = fail
    /\ UNCHANGED <<w_kind, w_batch, before, once, report>>

\* reference block: <kind>_data = fetch_paginated_data(<endpoint>)
FetchReference ==
    /\ rpc = "refs"
    /\ CallFetch(EndpointOf(ReferenceKinds[Len(refs) + 1]), <<>>)
    /\ rpc' = "ref_fetching"
    /\ UNCHANGED <<mode, start_date, end_date, fetch_supporting_data, date_list, checkpoint,
                   last_date_str, earlier, refs, visited, requested, cycle, failures>>
    /\ UNCHANGED writerVars

\* reference block: process_<kind>_data(<kind>_data, session) is called
WriteReference ==
    /\ rpc = "ref_fetching" /\ pc = "fetch_returned"
    /\ CallWriter(ReferenceKinds[Len(refs) + 1],
                  Fetched(ReferenceKinds[Len(refs) + 1], 0, Len(all_results)))
    /\ rpc' = "ref_writing"
    /\ UNCHANGED <<mode, start_date, end_date, fetch_supporting_data, date_list, checkpoint,
                   last_date_str, earlier, refs, visited, requested, cycle, failures>>
    /\ UNCHANGED clientVars

\* the reference block holds the airlines only: on to the dates after them
ReferenceWrittenMutant ==
    /\ rpc = "ref_writing"
    /\ \E fail \in Failures(w_batch) :
          /\ WriterReturns(fail)
          /\ rpc' = IF Report(w_kind, store[w_kind], w_batch, fail).raised THEN "done"
                    ELSE "dates"
    /\ refs' = Append(refs, w_kind)
    /\ UNCHANGED <<mode, start_date, end_date, fetch_supporting_data, date_list, checkpoint,
                   last_date_str, earlier, visited, requested, cycle>>
    /\ UNCHANGED clientVars

\* reference block: the writer is back; an exception it let through ends the run
ReferenceWritten ==
    /\ rpc = "ref_writing"
    /\ \E fail \in Failures(w_batch) :
          /\ WriterReturns(fail)
          /\ rpc' = IF Report(w_kind, store[w_kind], w_batch, fail).raised THEN "done"
                    ELSE IF Len(refs) + 1 = Len(ReferenceKinds) THEN "dates"
                    ELSE "refs"
    /\ refs' = Append(refs, w_kind)
    /\ UNCHANGED <<mode, start_date, end_date, fetch_supporting_data, date_list, checkpoint,
                   last_date_str, earlier, visited, requested, cycle>>
    /\ UNCHANGED clientVars

\* date loop: flights_data = fetch_paginated_data('flights', date_str)
FetchFlights ==
    /\ rpc = "dates" /\ date_list # <<>>
    /\ ~has_data_for_date(Head(date_list), store.Flight)
    /\ CallFetch("flights", <<Head(date_list)>>)
    /\ requested' = IF is_date_in_valid_range(Head(date_list), now)
                    THEN requested \cup {Head(date_list)} ELSE requested
    /\ rpc' = "fetching"
    /\ UNCHANGED <<mode, start_date, end_date, fetch_supporting_data, date_list, checkpoint,
                   last_date_str, earlier, refs, visited, cycle, failures>>
    /\ UNCHANGED writerVars

\* the writer is called and the loop goes on without waiting for it
WriteFlightsMutant ==
    /\ rpc = "fetching" /\ pc = "fetch_returned"
    /\ IF all_results = <<>>
       THEN rpc' = "checkpoint" /\ UNCHANGED writerVars
       ELSE /\ CallWriter("Flight", Fetched("Flight", Head(date_list), Len(all_results)))
            /\ rpc' = "checkpoint"
    /\ UNCHANGED <<mode, start_date, end_date, fetch_supporting_data, date_list, checkpoint,
                   last_date_str, earlier, refs, visited, requested, cycle, failures>>
    /\ UNCHANGED clientVars

\* date loop: if flights_data: process_flights_data(flights_data, session) is called
WriteFlights ==
    /\ rpc = "fetching" /\ pc = "fetch_returned"
    /\ IF all_results = <<>>
       THEN rpc' = "checkpoint" /\ UNCHANGED writerVars
       ELSE /\ CallWriter("Flight", Fetched("Flight", Head(date_list), Len(all_results)))
            /\ rpc' = "writing"
    /\ UNCHANGED <<mode, start_date, end_date, fetch_supporting_data, date_list, checkpoint,
                   last_date_str, earlier, refs, visited, requested, cycle, failures>>
    /\ UNCHANGED clientVars

\* date loop: process_flights_data is back
FlightsWritten ==
    /\ rpc = "writing"
    /\ \E fail \in Failures(w_batch) : WriterReturns(fail)
    /\ rpc' = "checkpoint"
    /\ UNCHANGED <<mode, start_date, end_date, fetch_supporting_data, date_list, checkpoint,
                   last_date_str, earlier, refs, visited, requested, cycle>>
    /\ UNCHANGED clientVars

\* date loop: the date is written to checkpoint.txt; on to the next date
WriteCheckpoint ==
    /\ rpc = "checkpoint"
    /\ checkpoint' = <<Head(date_list)>>
    /\ visited' = Append(visited, Head(date_list))
    /\ date_list' = Tail(date_list)
    /\ rpc' = "dates"
    /\ UNCHANGED <<mode, start_date, end_date, fetch_supporting_data, last_date_str, earlier,
                   refs, requested, cycle, failures>>
    /\ UNCHANGED <<clientVars, writerVars>>

\* the page loop of the fetch in progress
PageLoop ==
    /\ rpc \in {"ref_fetching", "fetching"}
    /\ \/ CallBegin
       \/ RequestOk
       \/ RequestException
       \/ RateLimited
       \/ DateError
       \/ ApiError
       \/ RetriesExhausted
       \/ PageError
       \/ PageReceived

NextWorker ==
    \/ \E range \in RangeArguments, skip_reference \in BOOLEAN :
          MainDateRange(range, skip_reference)
    \/ ProcessDateRange
    \/ FetchReference
    \/ WriteReference
    \/ ReferenceWritten
    \/ SkipDate
    \/ FetchFlights
    \/ PageLoop
    \/ WriteFlights
    \/ FlightsWritten
    \/ WriteCheckpoint
    \/ RunEnd

SpecWorker == InitWorker /\ [][NextWorker]_vars

(***************************************************************************)
(* Properties of the runs.                                                 *)
(***************************************************************************)

\* a date cycle has just written a flights batch, and a statement of that
\* write raised: the execute of a record that passed the field check, or the
\* commit
CycleWriteFailed ==
    /\ cycle.date # 0 /\ ~cycle.skipped
    /\ \/ cycle.fail.commit
       \/ cycle.fail.at > 0 /\ HasRequiredFields("Flight", cycle.fetched[cycle.fail.at])

\* C3: when a store write of the flights batch of a date raises, no record of
\* the batch is visible afterwards (the flights table is as before the call),
\* the call reports the batch as failed, and the date is not written to the
\* checkpoint.
C3_BatchAtomic ==
    CycleWriteFailed =>
        /\ store.Flight = cycle.flights_before
        /\ (cycle.report.commit_error \/ cycle.report.raised)
        /\ checkpoint = cycle.checkpoint_before

\* the resume run that found a checkpoint is over, and nothing failed in it
ResumeCompleted ==
    mode = "resume" /\ rpc = "done" /\ last_date_str # <<>> /\ failures = 0

\* the dates lo, lo + 1, ... hi
DateRange(lo, hi) == {d \in lo..hi : TRUE}

\* C4: a resume run that found the checkpoint C visits exactly the dates from
\* C + 1, or from the first date of the valid window if that is later, through
\* the date of now, and neither visits nor requests C.
C4_Resume ==
    ResumeCompleted =>
        LET C == last_date_str[1]
            today == strftime(end_date)
            first == IF C + 1 < today - HISTORICAL_DATA_WINDOW_DAYS
                     THEN today - HISTORICAL_DATA_WINDOW_DAYS ELSE C + 1
        IN  /\ {visited[i] : i \in 1..Len(visited)} = DateRange(first, today)
            /\ C \notin {visited[i] : i \in 1..Len(visited)}
            /\ C \notin requested

\* the dates of the run in iteration order
RunDates == generate_date_list(start_date, end_date, TRUE)

\* C13: a date whose fetch failed or whose store write failed does not stop
\* the run: in the date loop no date is lost from the iteration order, and
\* once the loop has started the run ends (short of a failure to write the
\* checkpoint file) only after it has visited every date.
C13_FailureIsolation ==
    /\ rpc = "dates" => visited \o date_list = RunDates
    /\ (/\ mode \in {"historical", "date_range", "resume"}
        /\ cycle.date # 0 /\ ~cycle.skipped
        /\ cycle.fetch_failed \/ cycle.fail # NoFailure
        /\ ~cycle.checkpoint_failed)
           => rpc = "dates" \/ (rpc = "done" /\ date_list = <<>>)
    /\ (rpc = "done" /\ mode # "daily" /\ cycle.date # 0 /\ ~cycle.checkpoint_failed)
           => visited = RunDates

C13_Witness ==
    /\ rpc = "done" /\ failures > 0 /\ visited = RunDates
    /\ Today \in requested /\ ~has_data_for_date(Today, store.Flight)
    /\ (Today - 1) \in requested /\ has_data_for_date(Today - 1, store.Flight)

\* C14: when the store write of the flights batch of a date fails, the
\* flights table holds exactly the rows it held before the batch, and
\* checkpoint.txt holds what it held before the date was processed.
C14_WriteFailureFrame ==
    (CycleWriteFailed /\ ~cycle.checkpoint_failed) =>
        /\ checkpoint = cycle.checkpoint_before
        /\ store.Flight = cycle.flights_before

\* the flights table holds a row of date d
HoldsFlightsOf(d) == \E j \in 1..Len(store.Flight) : store.Flight[j].flight_date = ToString(d)

\* C16: when the fetch of a date fails after it has accumulated records, the
\* run writes none of them, and the date stays eligible: the flights table
\* is as before and holds no row of the date, so that the skip check of a
\* later run does not pass over the date.
C16_PartialFetchDiscarded ==
    (cycle.date # 0 /\ cycle.fetch_failed /\ cycle.fetched # <<>>) =>
        /\ store.Flight = cycle.flights_before
        /\ ~HoldsFlightsOf(cycle.date)

C18_Clamping ==
    /\ [][(rpc = "date_range" /\ rpc' # rpc) =>
            LET first == now - timedelta(HISTORICAL_DATA_WINDOW_DAYS)
            IN  /\ start_date' = IF start_date < first THEN first ELSE start_date
                /\ end_date' = IF end_date > now THEN now ELSE end_date
                /\ rpc' = IF start_date' > end_date' THEN "done"
                          ELSE IF fetch_supporting_data THEN "refs" ELSE "dates"
                /\ date_list' = <<>> <=> start_date' > end_date']_vars
    /\ [](\A d \in requested :
            /\ Today - HISTORICAL_DATA_WINDOW_DAYS <= d
            /\ d <= strftime(now))

C18_Witness ==
    /\ mode = "date_range" /\ rpc = "done"
    /\ start_date > strptime(Today - HISTORICAL_DATA_WINDOW_DAYS - 2)
    /\ end_date < strptime(Today - HISTORICAL_DATA_WINDOW_DAYS + 2)
    /\ visited # <<>> /\ requested # {}

\* C19: every run ends, whatever fetch or write failures occur in it, and it
\* ends as a complete run: no failure of a fetch or of a store write cuts it
\* short before it has visited every date of its range.
C19_RunCompletes ==
    /\ <>(rpc = "done")
    /\ [](rpc = "done" /\ mode # "daily" /\ ~cycle.checkpoint_failed => visited = RunDates)

\* the dates the current run has visited
Visited == {visited[i] : i \in 1..Len(visited)}

\* C20: a failed write of checkpoint.txt does not end the date loop (the date
\* cycle counts as done and the run goes on), and the resume run that follows
\* visits at most one date that the earlier run had already processed, and
\* sends no request for such a date.
C20_CheckpointFailureTolerated ==
    /\ cycle.checkpoint_failed => (rpc = "dates" \/ date_list = <<>>)
    /\ (earlier # {} /\ rpc = "done") =>
          /\ Cardinality(Visited \cap earlier) <= 1
          /\ Visited \cap earlier \cap requested = {}

\* the dates of the window of HISTORICAL_DATA_WINDOW_DAYS days that ends at the
\* day of the instant t, newest first
WindowDates(t) == [k \in 1..(HISTORICAL_DATA_WINDOW_DAYS + 1) |-> strftime(t) + 1 - k]

\* C21: a resume run that finds no checkpoint file goes on: it sets out over
\* the dates of the whole window of the instant, which are the dates a
\* historical run started at that instant sets out over, and when nothing
\* fails in it, it ends having visited each of them.
C21_MissingCheckpoint ==
    /\ [][(rpc = "resume" /\ checkpoint = <<>> /\ rpc' # rpc) =>
            (rpc' \in {"refs", "dates"} /\ date_list' = WindowDates(now))]_vars
    /\ [][(rpc = "idle" /\ mode' = "historical") => date_list' = WindowDates(now)]_vars
    /\ []((mode = "resume" /\ last_date_str = <<>> /\ rpc = "done" /\ failures = 0)
             => visited = WindowDates(end_date))

C21_Witness ==
    /\ mode = "resume" /\ last_date_str = <<>> /\ rpc = "done" /\ failures = 0
    /\ Len(visited) = HISTORICAL_DATA_WINDOW_DAYS + 1
    /\ checkpoint = <<Today - HISTORICAL_DATA_WINDOW_DAYS>>

\* the last date cycle fetched and wrote (it did not skip its date) / the fetch
\* or a statement of the write failed in it
CycleRan == cycle.date # 0 /\ ~cycle.skipped
CycleFailed == CycleRan /\ (cycle.fetch_failed \/ CycleWriteFailed)

\* C26: checkpoint.txt holds nothing or one date; a date cycle of a range or
\* historical run in which the fetch or the write failed leaves it as it was
\* (the failed date does not become the checkpoint), and a cycle in which
\* nothing failed leaves its date in it.
C26_CheckpointValue ==
    /\ Len(checkpoint) <= 1
    /\ CycleFailed => checkpoint = cycle.checkpoint_before
    /\ (/\ CycleRan /\ mode # "daily"
        /\ ~cycle.fetch_failed /\ cycle.fail = NoFailure /\ ~cycle.checkpoint_failed)
           => checkpoint = <<cycle.date>>

\* the dates visited so far are consecutive days, each `step` days after the
\* one before it
VisitedInSteps(step) == \A i \in 1..(Len(visited) - 1) : visited[i + 1] = visited[i] + step

\* C28: a historical run visits its dates newest first, each the day before
\* the last one, and a run over an explicit range visits its dates oldest
\* first, each the day after the last one; so no date is visited twice.
C28_IterationOrder ==
    /\ mode = "historical" => VisitedInSteps(-1)
    /\ mode = "date_range" => VisitedInSteps(1)

\* a call of fetch_paginated_data / of a writer has not returned yet
FetchInProgress == pc \in {"call", "request", "call_returned"}
WriteInProgress == wpc = "writing"

\* C29: a fetch and a write are never in progress together; the flights
\* fetch in progress is for the first date not yet done, every date before it
\* in the order being done with; and the write in progress is of that date's
\* batch. So no request for the next date is sent before the write of the
\* current one has returned.
C29_Sequential ==
    /\ ~(FetchInProgress /\ WriteInProgress)
    /\ (FetchInProgress \/ WriteInProgress) => rpc \in {"ref_fetching", "ref_writing", "fetching", "writing"}
    /\ rpc \in {"fetching", "writing"} =>
          /\ date_list # <<>> /\ date = <<Head(date_list)>>
          /\ visited \o date_list = RunDates
    /\ (rpc = "writing" /\ WriteInProgress) =>
          \A i \in 1..Len(w_batch) : w_batch[i].flight_date = ToString(Head(date_list))

C29_Witness ==
    /\ rpc = "fetching" /\ pc = "request" /\ visited # <<>>
    /\ wpc = "written" /\ w_kind = "Flight" /\ w_batch # <<>>
    /\ w_batch[1].flight_date = ToString(visited[Len(visited)])

\* the run is in its date loop and has called the flights fetch
FlightsFetchCalled == rpc \in {"fetching", "writing", "checkpoint"} \/ visited # <<>>

\* C30: the reference endpoints are fetched and written one after the other
\* in the order airlines, airports, routes, none twice, each fetch followed by
\* the write of its kind, all before any date is touched; when the first
\* flights fetch is called, a run with the flag set has fetched and written
\* all three, and a run with the flag cleared none: it never calls the fetch
\* of a reference endpoint.
C30_ReferenceOnce ==
    /\ refs = SubSeq(ReferenceKinds, 1, Len(refs))
    /\ rpc \in {"ref_fetching", "ref_writing"} =>
          /\ fetch_supporting_data /\ Len(refs) < Len(ReferenceKinds)
          /\ endpoint = EndpointOf(ReferenceKinds[Len(refs) + 1])
          /\ requested = {} /\ visited = <<>>
    /\ rpc = "ref_writing" => w_kind = ReferenceKinds[Len(refs) + 1]
    /\ endpoint # "flights" => (requested = {} /\ ~FlightsFetchCalled)
    /\ FlightsFetchCalled =>
          refs = (IF fetch_supporting_data THEN ReferenceKinds ELSE <<>>)
    /\ ~fetch_supporting_data => (endpoint = "flights" /\ refs = <<>>)

C30_Witness ==
    /\ rpc = "fetching" /\ pc = "request" /\ endpoint = "flights"
    /\ fetch_supporting_data /\ refs = ReferenceKinds
    /\ visited = <<>> /\ store.Airline # <<>> /\ store.Route # <<>>

\* the batch holds a record without the required fields of its kind
HasDrop(kind, batch) == \E i \in 1..Len(batch) : ~HasRequiredFields(kind, batch[i])

\* C31: when the flights writer returns from a batch in which records were
\* dropped for a missing required field and no statement raised, every other
\* record of the batch is a row of the table, every row that was there is
\* still there, the writer returns the count of the written records and logs
\* no error, and the run goes on to write the date to the checkpoint.
C31_DropsStayPerRecord ==
    /\ [][(/\ rpc = "writing" /\ rpc' # rpc /\ w_fail' = NoFailure
           /\ HasDrop("Flight", w_batch))
             => /\ \A i \in Written("Flight", w_batch) : HoldsPayload(store'.Flight, w_batch[i])
                /\ \A j \in 1..Len(store.Flight) :
                      HoldsKeyOf("Flight", store'.Flight, store.Flight[j])
                /\ Report("Flight", store.Flight, w_batch, NoFailure)
                      = [NoReport EXCEPT !.returned = <<Cardinality(Written("Flight", w_batch))>>,
                                         !.processed = <<Cardinality(Written("Flight", w_batch))>>]
                /\ rpc' = "checkpoint"]_vars
    /\ [][(rpc = "checkpoint" /\ rpc' # rpc)
             => (rpc' = "dates" /\ checkpoint' = <<Head(date_list)>>)]_vars

C31_Witness ==
    /\ rpc = "dates" /\ visited # <<>> /\ checkpoint = <<visited[Len(visited)]>>
    /\ wpc = "written" /\ w_fail = NoFailure /\ w_kind = "Flight"
    /\ HasDrop("Flight", w_batch) /\ Written("Flight", w_batch) # {}
    /\ w_batch[1].flight_date = ToString(checkpoint[1])
    /\ HoldsPayload(store.Flight, w_batch[1])

\* C33: no step of a run removes a row: every natural key that a table holds
\* before the step it holds after it, and no table gets shorter (a write that
\* is rolled back leaves the table as it was before the batch).
C33_NoDeletion ==
    [][\A kind \in Kinds :
          /\ Len(store'[kind]) >= Len(store[kind])
          /\ \A j \in 1..Len(store[kind]) :
                HoldsKeyOf(kind, store'[kind], store[kind][j])]_vars

C33_Witness ==
    /\ CycleRan /\ cycle.fail.commit
    /\ cycle.flights_before # <<>> /\ store.Flight = cycle.flights_before
    /\ store.Airline # <<>>

\* the dates of the valid window at the clock's time
InWindow == {d \in 0..strftime(now) : is_date_in_valid_range(d, now)}

\* C34: at the end of a resume run that followed a historical run cut short,
\* every date of the valid window has been visited (processed, or skipped for
\* the data it has) by one of the two runs.
C34_ResumeCoversWindow ==
    (mode = "resume" /\ earlier # {} /\ rpc = "done") =>
        \A d \in InWindow : d \in earlier \/ d \in Visited

\* C35: after the cycle of a date, when the flights table holds a row of the
\* date (so that the skip check passes over it from then on), it holds a row
\* for every record the cycle fetched that has its required fields.
C35_SkipNeverHidesIncomplete ==
    (CycleRan /\ HoldsFlightsOf(cycle.date)) =>
        \A i \in 1..Len(cycle.fetched) :
            HasRequiredFields("Flight", cycle.fetched[i]) =>
                HoldsKeyOf("Flight", store.Flight, cycle.fetched[i])

=============================================================================
